---- MODULE Spec2Model ----
(***************************************************************************)
(* Model of src/websocket.ts: WebSocketProxy, a bridge between one child   *)
(* process (the ACP agent, spoken to over stdin/stdout) and WebSocket      *)
(* peers, of which the most recently connected one is the current client.  *)
(*                                                                         *)
(* Node runs every callback to completion on one thread, so each callback  *)
(* registered by the class is one atomic action.  What the ws library and  *)
(* the operating system decide (when a peer connects, when a frame or a    *)
(* close arrives, when the agent's stdin stops being writable, when the    *)
(* agent exits) is nondeterministic.                                       *)
(***************************************************************************)
EXTENDS Integers, Sequences, FiniteSets, TLC

\* ---------------------------------------------------------------- bounds
MaxPeers == 3      \* WebSocket objects the server hands to "connection"
MaxData == 2       \* "message" and stdout "data" events over the whole run
MaxPings == 1      \* probes sent over the whole run
MaxCode == 2       \* largest numeric exit code of the agent

Peers == 1..MaxPeers
None == 0          \* currentClient === null
Null == -1         \* exit code null (agent ended by a signal)
Payloads == {"1", "x"}          \* "1" parses as JSON, "x" does not
Codes == (0..MaxCode) \cup {Null}
Signals == {"SIGINT", "SIGTERM"}

VARIABLES
    currentClient,   \* this.currentClient
    readyState,      \* ws.readyState of every WebSocket object
    closeCalls,      \* number of ws.close() calls made on every object
    pingInterval,    \* whether the object's setInterval timer is scheduled
    pings,           \* number of ws.ping() calls made on every object
    wsSent,          \* frames handed to ws.send(), per object
    stdinWritable,   \* this.agent.stdin.writable
    stdinWritten,    \* buffers handed to this.agent.stdin.write(), in order
    arrived,         \* "message" events in arrival order
    emitted,         \* stdout "data" events in arrival order
    agentState,      \* the child process: Running, Exited, Errored, Killed
    agentExitCode,   \* the code the child exited with (null: by a signal)
    agentKilled,     \* this.agent.killed
    killCalls,       \* number of this.agent.kill() calls
    wssClosed,       \* this.wss.close() was called
    hostRunning,     \* FALSE once process.exit() was called
    exitCode,        \* the argument of process.exit()
    signal           \* the termination signal the host received, if any

vars == <<currentClient, readyState, closeCalls, pingInterval, pings, wsSent,
          stdinWritable, stdinWritten, arrived, emitted, agentState,
          agentExitCode, agentKilled, killCalls, wssClosed, hostRunning,
          exitCode, signal>>

wsVars == <<currentClient, readyState, closeCalls, pingInterval, pings, wsSent>>
agentVars == <<agentState, agentExitCode, agentKilled, killCalls>>
hostVars == <<wssClosed, hostRunning, exitCode, signal>>
stdinVars == <<stdinWritable, stdinWritten, arrived>>

\* ------------------------------------------------------------ ws library
\* ws.close(): an OPEN socket starts the closing handshake; on a socket that
\* is already CLOSING or CLOSED the call changes nothing.
WsClose(state) == IF state = "OPEN" THEN "CLOSING" ELSE state

\* this.wss.clients: the sockets the server has accepted and whose "close"
\* event has not fired yet.
clients == {p \in Peers : readyState[p] \in {"OPEN", "CLOSING"}}

\* JSON.parse(data.toString()) in the handlers' try blocks: it returns for
\* "1" and throws for "x"; the catch block logs the raw text instead.
JsonParses(data) == data = "1"

\* ------------------------------------------------------------------ Init
Init ==
    /\ currentClient = None
    /\ readyState = [p \in Peers |-> "CONNECTING"]
    /\ closeCalls = [p \in Peers |-> 0]
    /\ pingInterval = [p \in Peers |-> FALSE]
    /\ pings = [p \in Peers |-> 0]
    /\ wsSent = [p \in Peers |-> <<>>]
    /\ stdinWritable = TRUE
    /\ stdinWritten = <<>>
    /\ arrived = <<>>
    /\ emitted = <<>>
    /\ agentState = "Running"
    /\ agentExitCode = Null
    /\ agentKilled = FALSE
    /\ killCalls = 0
    /\ wssClosed = FALSE
    /\ hostRunning = TRUE
    /\ exitCode = Null
    /\ signal = "none"

\* ------------------------------------------------- wss.on("connection")
\* The server hands over its WebSocket objects in the order 1, 2, 3, ...
\* Variant of OnConnect that forgets to close the previous client.
OnConnectNoClose(ws) ==
    /\ hostRunning
    /\ readyState[ws] = "CONNECTING"
    /\ \A q \in Peers : q < ws => readyState[q] # "CONNECTING"
    /\ readyState' = [readyState EXCEPT ![ws] = "OPEN"]
    /\ currentClient' = ws
    /\ pingInterval' = [pingInterval EXCEPT ![ws] = TRUE]
    /\ UNCHANGED <<closeCalls, pings, wsSent, stdinVars, emitted, agentVars,
                   hostVars>>

\* Variant of OnConnect that keeps an existing current client.
OnConnectKeepOld(ws) ==
    /\ hostRunning
    /\ readyState[ws] = "CONNECTING"
    /\ \A q \in Peers : q < ws => readyState[q] # "CONNECTING"
    /\ readyState' = [readyState EXCEPT ![ws] = "OPEN"]
    /\ currentClient' = IF currentClient # None THEN currentClient ELSE ws
    /\ pingInterval' = [pingInterval EXCEPT ![ws] = TRUE]
    /\ UNCHANGED <<closeCalls, pings, wsSent, stdinVars, emitted, agentVars,
                   hostVars>>

OnConnect(ws) ==
    /\ hostRunning
    /\ readyState[ws] = "CONNECTING"
    /\ \A q \in Peers : q < ws => readyState[q] # "CONNECTING"
    /\ readyState' = [p \in Peers |->
                        IF p = ws THEN "OPEN"
                        ELSE IF p = currentClient THEN WsClose(readyState[p])
                        ELSE readyState[p]]
    /\ closeCalls' = [p \in Peers |->
                        IF p = currentClient THEN closeCalls[p] + 1
                        ELSE closeCalls[p]]
    /\ currentClient' = ws
    /\ pingInterval' = [pingInterval EXCEPT ![ws] = TRUE]
    /\ UNCHANGED <<pings, wsSent, stdinVars, emitted, agentVars, hostVars>>

\* ------------------------------------------------------ ws.on("message")
\* The ws library emits "message" for every data frame it reads, also after
\* close() was called on the socket and until the closing handshake is over.
\* Variant of OnMessage that writes without looking at stdin.writable.
OnMessageNoWritableCheck(ws, data) ==
    /\ hostRunning
    /\ ws \in clients
    /\ Len(arrived) + Len(emitted) < MaxData
    /\ arrived' = Append(arrived,
                         [from |-> ws, data |-> data, writable |-> stdinWritable,
                          parsed |-> JsonParses(data)])
    /\ stdinWritten' = Append(stdinWritten, [from |-> ws, data |-> data])
    /\ UNCHANGED <<wsVars, stdinWritable, emitted, agentVars, hostVars>>

\* Variant of OnMessage that ends the host when stdin is not writable.
OnMessageFatalDrop(ws, data) ==
    /\ hostRunning
    /\ ws \in clients
    /\ Len(arrived) + Len(emitted) < MaxData
    /\ arrived' = Append(arrived,
                         [from |-> ws, data |-> data, writable |-> stdinWritable,
                          parsed |-> JsonParses(data)])
    /\ stdinWritten' = IF stdinWritable
                       THEN Append(stdinWritten, [from |-> ws, data |-> data])
                       ELSE stdinWritten
    /\ hostRunning' = stdinWritable
    /\ exitCode' = IF stdinWritable THEN exitCode ELSE 1
    /\ UNCHANGED <<wsVars, stdinWritable, emitted, agentVars, wssClosed, signal>>

\* Variant of OnMessage with the write inside the try block, after the parse.
OnMessageDecodeBlocks(ws, data) ==
    /\ hostRunning
    /\ ws \in clients
    /\ Len(arrived) + Len(emitted) < MaxData
    /\ arrived' = Append(arrived,
                         [from |-> ws, data |-> data, writable |-> stdinWritable,
                          parsed |-> JsonParses(data)])
    /\ stdinWritten' = IF stdinWritable /\ JsonParses(data)
                       THEN Append(stdinWritten, [from |-> ws, data |-> data])
                       ELSE stdinWritten
    /\ UNCHANGED <<wsVars, stdinWritable, emitted, agentVars, hostVars>>

OnMessage(ws, data) ==
    /\ hostRunning
    /\ ws \in clients
    /\ Len(arrived) + Len(emitted) < MaxData
    /\ arrived' = Append(arrived,
                         [from |-> ws, data |-> data, writable |-> stdinWritable,
                          parsed |-> JsonParses(data)])
    /\ stdinWritten' = IF stdinWritable
                       THEN Append(stdinWritten, [from |-> ws, data |-> data])
                       ELSE stdinWritten
    /\ UNCHANGED <<wsVars, stdinWritable, emitted, agentVars, hostVars>>

\* The agent's stdin stops being writable (the stream ended or was destroyed).
StdinEnd ==
    /\ hostRunning
    /\ stdinWritable
    /\ stdinWritable' = FALSE
    /\ UNCHANGED <<wsVars, stdinWritten, arrived, emitted, agentVars, hostVars>>

\* --------------------------------------------------------- ws.on("close")
\* The peer starts the closing handshake or its socket breaks: the library
\* moves the object to CLOSING before it emits "close".
PeerClosing(ws) ==
    /\ hostRunning
    /\ readyState[ws] = "OPEN"
    /\ readyState' = [readyState EXCEPT ![ws] = "CLOSING"]
    /\ UNCHANGED <<currentClient, closeCalls, pingInterval, pings, wsSent,
                   stdinVars, emitted, agentVars, hostVars>>

\* Variant of OnClose that clears currentClient whichever socket closed.
OnCloseAlwaysClear(ws) ==
    /\ hostRunning
    /\ ws \in clients
    /\ readyState' = [readyState EXCEPT ![ws] = "CLOSED"]
    /\ currentClient' = None
    /\ UNCHANGED <<closeCalls, pingInterval, pings, wsSent, stdinVars, emitted,
                   agentVars, hostVars>>

OnClose(ws) ==
    /\ hostRunning
    /\ ws \in clients
    /\ readyState' = [readyState EXCEPT ![ws] = "CLOSED"]
    /\ currentClient' = IF currentClient = ws THEN None ELSE currentClient
    /\ UNCHANGED <<closeCalls, pingInterval, pings, wsSent, stdinVars, emitted,
                   agentVars, hostVars>>

\* --------------------------------------------------------- ws.on("error")
\* Variant of OnWsError that treats a connection error as fatal.
OnWsErrorFatal(ws) ==
    /\ hostRunning
    /\ ws \in clients
    /\ wssClosed' = TRUE
    /\ hostRunning' = FALSE
    /\ exitCode' = 1
    /\ UNCHANGED <<wsVars, stdinVars, emitted, agentVars, signal>>

OnWsError(ws) ==
    /\ hostRunning
    /\ ws \in clients
    /\ UNCHANGED vars

\* ------------------------------------------- setInterval(..., 30000) tick
RECURSIVE SumPings(_)
SumPings(n) == IF n = 0 THEN 0 ELSE pings[n] + SumPings(n - 1)

\* Variant of OnPingInterval that pings without looking at ws.readyState.
OnPingIntervalNoCheck(ws) ==
    /\ hostRunning
    /\ pingInterval[ws]
    /\ SumPings(MaxPeers) < MaxPings
    /\ pings' = [pings EXCEPT ![ws] = @ + 1]
    /\ UNCHANGED <<currentClient, readyState, closeCalls, pingInterval, wsSent,
                   stdinVars, emitted, agentVars, hostVars>>

\* Variant of OnPingInterval without the else branch: never clearInterval.
OnPingIntervalNeverCancel(ws) ==
    /\ hostRunning
    /\ pingInterval[ws]
    /\ IF readyState[ws] = "OPEN"
       THEN /\ SumPings(MaxPeers) < MaxPings
            /\ pings' = [pings EXCEPT ![ws] = @ + 1]
       ELSE pings' = pings
    /\ UNCHANGED <<currentClient, readyState, closeCalls, pingInterval, wsSent,
                   stdinVars, emitted, agentVars, hostVars>>

OnPingInterval(ws) ==
    /\ hostRunning
    /\ pingInterval[ws]
    /\ IF readyState[ws] = "OPEN"
       THEN /\ SumPings(MaxPeers) < MaxPings
            /\ pings' = [pings EXCEPT ![ws] = @ + 1]
            /\ pingInterval' = pingInterval
       ELSE /\ pingInterval' = [pingInterval EXCEPT ![ws] = FALSE]
            /\ pings' = pings
    /\ UNCHANGED <<currentClient, readyState, closeCalls, wsSent, stdinVars,
                   emitted, agentVars, hostVars>>

\* ---------------------------------------------------------- ws.on("pong")
OnPong(ws) ==
    /\ hostRunning
    /\ ws \in clients
    /\ pings[ws] > 0
    /\ UNCHANGED vars

\* -------------------------------------------------------- wss.on("error")
OnWssError ==
    /\ hostRunning
    /\ UNCHANGED vars

\* ------------------------------------------------ agent.stdout.on("data")
\* Every chunk gets its position in the stdout stream as identity; the entry
\* of emitted records what the callback found in this.currentClient.
\* Variant of OnStdoutData that sends to the current client without looking
\* at its readyState.
OnStdoutDataNoOpenCheck(data) ==
    /\ hostRunning
    /\ Len(arrived) + Len(emitted) < MaxData
    /\ LET seq == Len(emitted) + 1
           open == currentClient # None /\ readyState[currentClient] = "OPEN"
       IN  /\ emitted' = Append(emitted, [seq |-> seq, data |-> data,
                                          client |-> currentClient, open |-> open,
                                          parsed |-> JsonParses(data)])
           /\ wsSent' = IF currentClient # None
                        THEN [wsSent EXCEPT ![currentClient] =
                                 Append(@, [seq |-> seq, data |-> data])]
                        ELSE wsSent
    /\ UNCHANGED <<currentClient, readyState, closeCalls, pingInterval, pings,
                   stdinVars, agentVars, hostVars>>

\* Variant of OnStdoutData that puts the new frame before the earlier ones.
OnStdoutDataPrepend(data) ==
    /\ hostRunning
    /\ Len(arrived) + Len(emitted) < MaxData
    /\ LET seq == Len(emitted) + 1
           open == currentClient # None /\ readyState[currentClient] = "OPEN"
       IN  /\ emitted' = Append(emitted, [seq |-> seq, data |-> data,
                                          client |-> currentClient, open |-> open,
                                          parsed |-> JsonParses(data)])
           /\ wsSent' = IF open
                        THEN [wsSent EXCEPT ![currentClient] =
                                 <<[seq |-> seq, data |-> data]>> \o @]
                        ELSE wsSent
    /\ UNCHANGED <<currentClient, readyState, closeCalls, pingInterval, pings,
                   stdinVars, agentVars, hostVars>>

OnStdoutData(data) ==
    /\ hostRunning
    /\ Len(arrived) + Len(emitted) < MaxData
    /\ LET seq == Len(emitted) + 1
           open == currentClient # None /\ readyState[currentClient] = "OPEN"
       IN  /\ emitted' = Append(emitted, [seq |-> seq, data |-> data,
                                          client |-> currentClient, open |-> open,
                                          parsed |-> JsonParses(data)])
           /\ wsSent' = IF open
                        THEN [wsSent EXCEPT ![currentClient] =
                                 Append(@, [seq |-> seq, data |-> data])]
                        ELSE wsSent
    /\ UNCHANGED <<currentClient, readyState, closeCalls, pingInterval, pings,
                   stdinVars, agentVars, hostVars>>

\* ---------------------------------------------------------------- shutdown
\* agent says what has become of the child when shutdown runs.  agent.kill()
\* signals the child and sets agent.killed when the child is still there; on
\* a child that is gone it signals nothing and agent.killed stays false.
\* process.exit() ends the host inside the call: nothing runs afterwards.
\* Variant of Shutdown that closes the current client only.
ShutdownOnlyCurrent(code, agent) ==
    /\ readyState' = [p \in Peers |->
                        IF p = currentClient THEN WsClose(readyState[p])
                        ELSE readyState[p]]
    /\ closeCalls' = [p \in Peers |->
                        IF p = currentClient THEN closeCalls[p] + 1
                        ELSE closeCalls[p]]
    /\ wssClosed' = TRUE
    /\ IF ~agentKilled
       THEN /\ killCalls' = killCalls + 1
            /\ agentKilled' = (agent = "Running")
            /\ agentState' = IF agent = "Running" THEN "Killed" ELSE agent
       ELSE /\ killCalls' = killCalls
            /\ agentKilled' = agentKilled
            /\ agentState' = agent
    /\ hostRunning' = FALSE
    /\ exitCode' = code
    /\ UNCHANGED <<currentClient, pingInterval, pings, wsSent, stdinVars, emitted>>

\* Variant of Shutdown with the test of agent.killed inverted: no kill().
ShutdownNoKill(code, agent) ==
    /\ readyState' = [p \in Peers |->
                        IF p \in clients THEN WsClose(readyState[p])
                        ELSE readyState[p]]
    /\ closeCalls' = [p \in Peers |->
                        IF p \in clients THEN closeCalls[p] + 1
                        ELSE closeCalls[p]]
    /\ wssClosed' = TRUE
    /\ killCalls' = killCalls
    /\ agentKilled' = agentKilled
    /\ agentState' = agent
    /\ hostRunning' = FALSE
    /\ exitCode' = code
    /\ UNCHANGED <<currentClient, pingInterval, pings, wsSent, stdinVars, emitted>>

\* Variant of Shutdown without process.exit(): the host keeps running.
ShutdownNoExit(code, agent) ==
    /\ readyState' = [p \in Peers |->
                        IF p \in clients THEN WsClose(readyState[p])
                        ELSE readyState[p]]
    /\ closeCalls' = [p \in Peers |->
                        IF p \in clients THEN closeCalls[p] + 1
                        ELSE closeCalls[p]]
    /\ wssClosed' = TRUE
    /\ IF ~agentKilled
       THEN /\ killCalls' = killCalls + 1
            /\ agentKilled' = (agent = "Running")
            /\ agentState' = IF agent = "Running" THEN "Killed" ELSE agent
       ELSE /\ killCalls' = killCalls
            /\ agentKilled' = agentKilled
            /\ agentState' = agent
    /\ hostRunning' = hostRunning
    /\ exitCode' = code
    /\ UNCHANGED <<currentClient, pingInterval, pings, wsSent, stdinVars, emitted>>

Shutdown(code, agent) ==
    /\ readyState' = [p \in Peers |->
                        IF p \in clients THEN WsClose(readyState[p])
                        ELSE readyState[p]]
    /\ closeCalls' = [p \in Peers |->
                        IF p \in clients THEN closeCalls[p] + 1
                        ELSE closeCalls[p]]
    /\ wssClosed' = TRUE
    /\ IF ~agentKilled
       THEN /\ killCalls' = killCalls + 1
            /\ agentKilled' = (agent = "Running")
            /\ agentState' = IF agent = "Running" THEN "Killed" ELSE agent
       ELSE /\ killCalls' = killCalls
            /\ agentKilled' = agentKilled
            /\ agentState' = agent
    /\ hostRunning' = FALSE
    /\ exitCode' = code
    /\ UNCHANGED <<currentClient, pingInterval, pings, wsSent, stdinVars, emitted>>

\* code || 0
\* Variant of OrZero that passes the code on as it is.
OrZeroKeepNull(code) == code

OrZero(code) == IF code = Null \/ code = 0 THEN 0 ELSE code

\* ------------------------------------------------------- agent.on("exit")
\* Variant of OnAgentExit that drops the child's code.
OnAgentExitAlwaysZero(code) ==
    /\ hostRunning
    /\ agentState = "Running"
    /\ agentExitCode' = code
    /\ signal' = signal
    /\ Shutdown(0, "Exited")

OnAgentExit(code) ==
    /\ hostRunning
    /\ agentState = "Running"
    /\ agentExitCode' = code
    /\ signal' = signal
    /\ Shutdown(OrZero(code), "Exited")

\* ------------------------------------------------------ agent.on("error")
\* Variant of OnAgentError that shuts down with the default exit code.
OnAgentErrorExitZero ==
    /\ hostRunning
    /\ agentState = "Running"
    /\ UNCHANGED <<agentExitCode, signal>>
    /\ Shutdown(0, "Errored")

OnAgentError ==
    /\ hostRunning
    /\ agentState = "Running"
    /\ UNCHANGED <<agentExitCode, signal>>
    /\ Shutdown(1, "Errored")

\* ----------------------------------------- process.on("SIGINT"/"SIGTERM")
OnSignal(sig) ==
    /\ hostRunning
    /\ signal' = sig
    /\ agentExitCode' = agentExitCode
    /\ Shutdown(0, agentState)

\* The events of the session manager and of the lifecycle controller: the
\* handlers that write currentClient, the sockets' states or the host's end.
NextSession ==
    \/ \E ws \in Peers : OnConnect(ws)
    \/ \E ws \in Peers : PeerClosing(ws)
    \/ \E ws \in Peers : OnClose(ws)
    \/ \E ws \in Peers : OnWsError(ws)
    \/ OnWssError
    \/ \E code \in Codes : OnAgentExit(code)
    \/ OnAgentError
    \/ \E sig \in Signals : OnSignal(sig)

\* Peer -> agent: writes stdinVars only.
NextInbound ==
    \/ \E ws \in Peers, data \in Payloads : OnMessage(ws, data)
    \/ StdinEnd

\* Agent -> peer: writes emitted and wsSent only.
NextOutbound ==
    \E data \in Payloads : OnStdoutData(data)

\* The liveness timers: write pingInterval and pings only.
NextProbe ==
    \/ \E ws \in Peers : OnPingInterval(ws)
    \/ \E ws \in Peers : OnPong(ws)

Next == NextSession \/ NextInbound \/ NextOutbound \/ NextProbe

Spec == Init /\ [][Next]_vars

\* The forwarding directions and the timers read the session's variables and
\* write disjoint variables of their own, so a property of the session's
\* variables and one of them can be checked with the other two left out.
SpecSession == Init /\ [][NextSession]_vars
SpecInbound == Init /\ [][NextSession \/ NextInbound]_vars
SpecOutbound == Init /\ [][NextSession \/ NextOutbound]_vars
SpecProbe == Init /\ [][NextSession \/ NextProbe]_vars

\* Both forwarding directions, without the timers.
SpecForward == Init /\ [][NextSession \/ NextInbound \/ NextOutbound]_vars

\* setInterval fires the timer of every socket again and again as long as
\* the timer is scheduled and the host runs.
SpecProbeFair ==
    SpecProbe /\ \A ws \in Peers : WF_vars(OnPingInterval(ws))

TypeOK ==
    /\ currentClient \in Peers \cup {None}
    /\ readyState \in [Peers -> {"CONNECTING", "OPEN", "CLOSING", "CLOSED"}]
    /\ agentState \in {"Running", "Exited", "Errored", "Killed"}
    /\ exitCode \in Codes \cup {1}
    /\ hostRunning \in BOOLEAN
    /\ signal \in Signals \cup {"none"}
    /\ agentExitCode \in Codes
    /\ \A p \in Peers : closeCalls[p] \in 0..2 /\ pings[p] \in 0..MaxPings
    /\ Len(arrived) + Len(emitted) <= MaxData

\* ======================================================================
\* Properties
\* ======================================================================
Connected(p) == readyState[p] # "CONNECTING"

\* The payloads of a sequence of records, in order.
Data(seq) == [i \in 1..Len(seq) |-> seq[i].data]

WasWritable(m) == m.writable

\* Only peer 1 has connected so far.
SinglePeer == Connected(1) /\ \A q \in Peers : q # 1 => ~Connected(q)

\* C1: a "close" event (the step that takes a socket to CLOSED) of a socket
\* that is not the current client leaves currentClient unchanged; a "close"
\* event of the current client sets currentClient to null.
C1_StaleCloseKeepsActive ==
    [][\A ws \in Peers :
          (readyState[ws] # "CLOSED" /\ readyState'[ws] = "CLOSED")
          => currentClient' = (IF currentClient = ws THEN None ELSE currentClient)
      ]_vars

\* Peer 1 was evicted by peer 2's connect and its "close" event has run while
\* peer 2 is the current client with an open connection.
C1_Witness ==
    /\ closeCalls[1] = 1
    /\ readyState[1] = "CLOSED"
    /\ currentClient = 2
    /\ readyState[2] = "OPEN"

\* C2: a "connection" event calls close() on the previous current client, so
\* that its connection is no longer open when the new socket becomes the
\* current client, and no step ever sends a frame to a socket other than the
\* current client: an evicted peer receives nothing emitted after its eviction.
C2_EvictThenSoleRecipient ==
    [][/\ \A ws \in Peers :
            (~Connected(ws) /\ readyState'[ws] = "OPEN")
            => /\ currentClient' = ws
               /\ currentClient # None
                  => /\ readyState'[currentClient] # "OPEN"
                     /\ closeCalls'[currentClient] = closeCalls[currentClient] + 1
       /\ \A q \in Peers : q # currentClient => wsSent'[q] = wsSent[q]
      ]_vars

\* Peer 1 got a chunk, peer 2 connected while peer 1's connection was open,
\* and a later chunk went to peer 2 while peer 1 was still closing.
C2_Witness ==
    /\ Len(wsSent[1]) = 1
    /\ Len(wsSent[2]) = 1
    /\ wsSent[1][1].seq < wsSent[2][1].seq
    /\ readyState[1] = "CLOSING"
    /\ currentClient = 2

\* C3 as stated: with a single connected peer, stdin receives exactly the
\* payloads of the peer's messages, in order.
C3_Original ==
    SinglePeer => Data(stdinWritten) = Data(arrived)

\* C3 as amended: with a single connected peer, stdin receives, unaltered and
\* in arrival order, exactly the payloads of the messages that arrived while
\* stdin was writable; a message arriving while it is not writable is dropped.
C3_WritableMessagesForwardedInOrder ==
    SinglePeer => Data(stdinWritten) = Data(SelectSeq(arrived, WasWritable))

\* One peer sent two different payloads; stdin was writable for the first
\* and not for the second.
C3_Witness ==
    /\ SinglePeer
    /\ Len(arrived) = 2
    /\ arrived[1].data # arrived[2].data
    /\ arrived[1].writable
    /\ ~arrived[2].writable
    /\ Len(stdinWritten) = 1

\* C4: every buffer written to the agent's stdin comes from the socket that
\* is the current client at that moment.
C4_OnlyActiveWrites ==
    [][Len(stdinWritten') > Len(stdinWritten)
       => stdinWritten'[Len(stdinWritten')].from = currentClient
      ]_vars

\* C5: the frames sent to a socket are exactly the chunks emitted while that
\* socket was the current client with an open connection, once each and in
\* order; a chunk emitted at any other moment reaches no socket, ever.
C5_ChunkToActiveOpenOnly ==
    \A p \in Peers :
        LET ForP(e) == e.open /\ e.client = p
            due == SelectSeq(emitted, ForP)
        IN  wsSent[p] = [i \in 1..Len(due) |->
                            [seq |-> due[i].seq, data |-> due[i].data]]

\* The first chunk was dropped for want of an open current client; a peer
\* that was connected later received the second chunk and only that one.
C5_Witness ==
    /\ Len(emitted) = 2
    /\ ~emitted[1].open
    /\ emitted[2].open
    /\ \E p \in Peers : /\ p # emitted[1].client
                        /\ Len(wsSent[p]) = 1
                        /\ wsSent[p][1].seq = 2

\* C6: once the child has exited with a numeric code N, the host has
\* terminated with exit code N.
C6_ExitCodePropagated ==
    (agentState = "Exited" /\ agentExitCode # Null)
    => (~hostRunning /\ exitCode = agentExitCode)

\* The child exited with the largest code while two peers were connected.
C6_Witness ==
    /\ agentState = "Exited"
    /\ agentExitCode = MaxCode
    /\ exitCode = MaxCode
    /\ Cardinality(clients) = 2

\* C7: the step in which a termination signal is received calls close() on
\* every connected socket, leaving none open, signals the child if it is
\* still running, and ends the host with exit code 0.
C7_SignalShutsDownGracefully ==
    [][(signal = "none" /\ signal' # "none")
       => /\ \A p \in clients : /\ readyState'[p] # "OPEN"
                                /\ closeCalls'[p] = closeCalls[p] + 1
          /\ agentState = "Running"
             => (agentState' = "Killed" /\ killCalls' = killCalls + 1)
          /\ ~hostRunning'
          /\ exitCode' = 0
      ]_vars

\* SIGTERM arrived while the current client was open and an evicted peer was
\* still closing; the child was running and has been signalled.
C7_Witness ==
    /\ signal = "SIGTERM"
    /\ ~hostRunning
    /\ currentClient = 2
    /\ readyState = [p \in Peers |-> IF p <= 2 THEN "CLOSING" ELSE "CONNECTING"]
    /\ closeCalls[2] = 1
    /\ agentState = "Killed"

\* C8: once the child has raised "error", shutdown has run (the server and
\* every socket were closed) and the host has terminated with exit code 1.
C8_AgentErrorExitsOne ==
    agentState = "Errored"
    => /\ ~hostRunning
       /\ exitCode = 1
       /\ wssClosed
       /\ \A p \in Peers : readyState[p] # "OPEN"

\* The child raised "error" while a peer was connected, whose socket
\* shutdown then closed.
C8_Witness ==
    /\ agentState = "Errored"
    /\ exitCode = 1
    /\ currentClient = 1
    /\ readyState[1] = "CLOSING"
    /\ closeCalls[1] = 1

\* C9: the step that terminates the host calls close() on every socket that
\* is connected at that moment, the current client or not, and leaves no
\* socket open.
C9_ShutdownClosesEveryClient ==
    [][(hostRunning /\ ~hostRunning')
       => /\ \A p \in clients : closeCalls'[p] = closeCalls[p] + 1
          /\ \A p \in Peers : readyState'[p] # "OPEN"
      ]_vars

\* The host has terminated; peer 1, evicted and still closing at that
\* moment, got a second close() from shutdown.
C9_Witness ==
    /\ ~hostRunning
    /\ currentClient = 2
    /\ readyState[1] = "CLOSING"
    /\ closeCalls[1] = 2

\* C10: a step sends a probe on a socket only if the socket is open before
\* the step: no probe is sent on a socket that is closing or closed.
C10_NoProbeAfterClose ==
    [][\A p \in Peers : readyState[p] # "OPEN" => pings'[p] = pings[p]]_vars

\* A socket was probed while open, then closed, and a later tick of its
\* timer found it closed and cancelled the timer without a probe.
C10_Witness ==
    \E p \in Peers : /\ readyState[p] = "CLOSED"
                     /\ pings[p] = 1
                     /\ ~pingInterval[p]

\* C11: once a socket's "close" event has been processed, its liveness timer
\* is no longer scheduled.
C11_TimerCancelledOnClose ==
    \A p \in Peers : readyState[p] = "CLOSED" => ~pingInterval[p]

\* A session is active while it is the current client or its socket is open.
Active(p) == p = currentClient \/ readyState[p] = "OPEN"

\* C12: at most one session is active in every state, and the step that
\* accepts a socket makes that socket the current client.
C12_AtMostOneActive ==
    /\ [](Cardinality({p \in Peers : Active(p)}) <= 1)
    /\ [][\A ws \in Peers :
             (~Connected(ws) /\ readyState'[ws] # "CONNECTING")
             => currentClient' = ws
         ]_vars

\* Peer 3 connected while peer 2 was the current client, which had itself
\* replaced peer 1.
C12_Witness ==
    /\ currentClient = 3
    /\ readyState[3] = "OPEN"
    /\ readyState[2] = "CLOSING"
    /\ closeCalls[1] = 1
    /\ closeCalls[2] = 1

\* C13: no kill() is issued to a child that has already exited.
C13_NoKillAfterExit ==
    agentState = "Exited" => killCalls = 0

\* C14: as long as every chunk was emitted while one and the same socket was
\* the current client with an open connection, that socket has been sent
\* exactly one frame per chunk, with the chunk's bytes, in emission order.
C14_StableClientGetsEveryChunk ==
    \A p \in Peers :
        (\A i \in 1..Len(emitted) : emitted[i].client = p /\ emitted[i].open)
        => wsSent[p] = [i \in 1..Len(emitted) |->
                           [seq |-> i, data |-> emitted[i].data]]

\* Two chunks with different bytes were emitted while peer 1 stayed the
\* current client with an open connection.
C14_Witness ==
    /\ Len(emitted) = 2
    /\ emitted[1].data # emitted[2].data
    /\ \A i \in 1..2 : emitted[i].client = 1 /\ emitted[i].open
    /\ Len(wsSent[1]) = 2

\* C15: a message that arrives while stdin is not writable is not written,
\* and its step changes neither the current client, the sockets, the child
\* nor the host; stdin is only ever written in the step in which a message
\* arrives, with that message, and is written in every such step that finds
\* it writable: a dropped message is never written later.
C15_DropIsFinal ==
    [][/\ (Len(arrived') > Len(arrived) /\ ~stdinWritable)
          => /\ stdinWritten' = stdinWritten
             /\ UNCHANGED <<currentClient, readyState, stdinWritable,
                            agentState, hostRunning, exitCode>>
       /\ (stdinWritten' # stdinWritten \/ (Len(arrived') > Len(arrived) /\ stdinWritable))
          => /\ Len(arrived') = Len(arrived) + 1
             /\ stdinWritable
             /\ stdinWritten' = Append(stdinWritten,
                                       [from |-> arrived'[Len(arrived')].from,
                                        data |-> arrived'[Len(arrived')].data])
      ]_vars

\* Two messages of the current client were dropped; the host and the child
\* are still running and the peer is still the current client.
C15_Witness ==
    /\ Len(arrived) = 2
    /\ ~arrived[1].writable
    /\ ~arrived[2].writable
    /\ stdinWritten = <<>>
    /\ hostRunning
    /\ agentState = "Running"
    /\ currentClient = arrived[2].from
    /\ readyState[currentClient] = "OPEN"

\* C16: a step in which shutdown acts (the server is closed, the child is
\* signalled or the host ends) is the child's exit, the child's error or
\* the receipt of a termination signal; and a step that changes the current
\* client is the acceptance or the "close" event of a socket: messages,
\* connection errors, pongs, timer ticks and dropped payloads do neither.
C16_OnlyTerminalEventsShutDown ==
    [][/\ (hostRunning' # hostRunning \/ wssClosed' # wssClosed
                                      \/ killCalls' # killCalls)
          => \/ agentState = "Running" /\ agentState' \in {"Exited", "Errored"}
             \/ signal = "none" /\ signal' \in Signals
       /\ currentClient' # currentClient
          => \E ws \in Peers :
                \/ readyState[ws] = "CONNECTING" /\ readyState'[ws] = "OPEN"
                \/ readyState[ws] # "CLOSED" /\ readyState'[ws] = "CLOSED"
      ]_vars

\* The host is still running after a stale "close" event, a probe (so that
\* a pong can arrive), a dropped peer message and a dropped chunk, and the
\* current client is still peer 2, whose socket is closing.
C16_Witness ==
    /\ hostRunning
    /\ ~wssClosed
    /\ currentClient = 2
    /\ readyState[1] = "CLOSED"
    /\ readyState[2] = "CLOSING"
    /\ pings[2] = 1
    /\ Len(arrived) = 1 /\ ~arrived[1].writable
    /\ Len(emitted) = 1 /\ ~emitted[1].open

\* C17: whether the diagnostic parse succeeds (b) or fails (~b), the payloads
\* written to stdin are exactly those that arrived while stdin was writable,
\* and the payloads sent to a socket are exactly those emitted while it was
\* the open current client: the outcome of the parse appears in neither
\* condition, and the bytes are the payload's own.
C17_DecodeDoesNotAffectForwarding ==
    \A b \in BOOLEAN :
        LET HasOutcome(w) == JsonParses(w.data) = b
            DueIn(m) == m.parsed = b /\ m.writable
        IN  /\ Data(SelectSeq(stdinWritten, HasOutcome))
                  = Data(SelectSeq(arrived, DueIn))
            /\ \A p \in Peers :
                  LET DueOut(e) == e.parsed = b /\ e.open /\ e.client = p
                  IN  Data(SelectSeq(wsSent[p], HasOutcome))
                         = Data(SelectSeq(emitted, DueOut))

\* A message that does not parse was written to stdin and a chunk that does
\* not parse was sent to the current client.
C17_Witness ==
    /\ Len(arrived) = 1
    /\ ~arrived[1].parsed
    /\ Len(stdinWritten) = 1
    /\ Len(emitted) = 1
    /\ ~emitted[1].parsed
    /\ Len(wsSent[emitted[1].client]) = 1

\* C18: a socket's timer is started by the step that accepts the socket and
\* by no other step (a cancelled timer is never restarted), it is cancelled
\* only in a step that finds the socket not open, and under fair ticks every
\* socket that is no longer open eventually has no timer, unless the host
\* has ended.
C18_TimerCancelledOnceNotOpen ==
    /\ [][\A p \in Peers :
             /\ (readyState[p] = "CONNECTING" /\ readyState'[p] = "OPEN")
                => pingInterval'[p]
             /\ (~pingInterval[p] /\ pingInterval'[p])
                => (readyState[p] = "CONNECTING" /\ readyState'[p] = "OPEN")
             /\ (pingInterval[p] /\ ~pingInterval'[p])
                => readyState[p] \in {"CLOSING", "CLOSED"}
         ]_vars
    /\ \A p \in Peers :
          (readyState[p] \in {"CLOSING", "CLOSED"})
             ~> (~pingInterval[p] \/ ~hostRunning)

\* Peer 1 was evicted and a tick of its timer has cancelled the timer while
\* the host runs and the timer of the current client is still scheduled.
C18_Witness ==
    /\ hostRunning
    /\ readyState[1] = "CLOSING"
    /\ closeCalls[1] = 1
    /\ ~pingInterval[1]
    /\ currentClient = 2
    /\ pingInterval[2]

\* C19: once the child has exited without a numeric code (null), the host
\* has terminated with exit code 0.
C19_NullExitCodeIsZero ==
    (agentState = "Exited" /\ agentExitCode = Null)
    => (~hostRunning /\ exitCode = 0)

\* The child was ended by a signal of its own while a peer was connected.
C19_Witness ==
    /\ agentState = "Exited"
    /\ agentExitCode = Null
    /\ exitCode = 0
    /\ currentClient = 1
    /\ closeCalls[1] = 1

\* C20: the step of the first terminal event ends the host, with that
\* event's exit code (the child's code, or 0 for none, on exit; 1 on error;
\* 0 on a signal), and no step changes anything once the host has ended:
\* no later exit code, forwarded payload, probe or session.
C20_FirstTerminalEventEndsHost ==
    [][/\ hostRunning
       /\ (agentState = "Running" /\ agentState' = "Exited")
          => /\ ~hostRunning'
             /\ exitCode' = IF agentExitCode' \in 1..MaxCode
                            THEN agentExitCode' ELSE 0
       /\ (agentState = "Running" /\ agentState' = "Errored")
          => (~hostRunning' /\ exitCode' = 1)
       /\ (signal = "none" /\ signal' # "none")
          => (~hostRunning' /\ exitCode' = 0)
      ]_vars

\* SIGINT ended the host while a timer was scheduled, a socket was still to
\* be accepted, the child was running and a message had been forwarded.
C20_Witness ==
    /\ ~hostRunning
    /\ signal = "SIGINT"
    /\ exitCode = 0
    /\ agentState = "Killed"
    /\ pingInterval[1]
    /\ pings[1] = 0
    /\ readyState[2] = "CONNECTING"
    /\ Len(stdinWritten) = 1
    /\ emitted = <<>>

====
